---- MODULE Spec2Model ----
(***************************************************************************)
(* Segment intersection (d3p1/segment-intersection).                       *)
(*                                                                         *)
(* Mathy.calculateIntersection and Mathy.lerp (docs/js/utils/mathy.js) are *)
(* pure functions over JavaScript numbers; App (docs/js/app.js) is the     *)
(* canvas demo with its animation loop.                                    *)
(*                                                                         *)
(* Numbers are IEEE 754 doubles, as in the program.  A number is a record  *)
(*    [k |-> "num", s |-> sign, m |-> mantissa, e |-> exponent]            *)
(* of value s * m * 2^e, where s is 1 or -1 and m is an odd natural number *)
(* of at most 53 bits (0 and -0 are m = <<>>, e = 0, s = 1 and -1), or     *)
(*    [k |-> "inf", s |-> sign, ...]   Infinity, -Infinity                 *)
(*    [k |-> "nan", ...]               NaN.                                *)
(* A natural number is the sequence of its digits in base 2^15, the least  *)
(* significant first, without leading zero digit: <<>> is 0.               *)
(* Every operation rounds its exact result to the nearest double, ties to  *)
(* even, to Infinity or -Infinity from 2^1024 on and to a multiple of      *)
(* 2^-1074 below 2^-1022.                                                  *)
(* A returned point is [x |-> number, y |-> number]; null is NULL.         *)
(***************************************************************************)
EXTENDS Integers, Sequences, FiniteSets

VARIABLES AB, CD, result, locals, pc,
          lerpA, lerpB, lerpT, lerpResult,
          segments, mouse, canvas, canvasSize, started, pending,
          intersectionCalls

mathVars == <<AB, CD, result, locals, pc>>
lerpVars == <<lerpA, lerpB, lerpT, lerpResult>>
appVars  == <<segments, mouse, canvas, canvasSize, started, pending,
              intersectionCalls>>
vars     == <<AB, CD, result, locals, pc, lerpA, lerpB, lerpT, lerpResult,
              segments, mouse, canvas, canvasSize, started, pending,
              intersectionCalls>>

(***************************************************************************)
(* Bounds                                                                  *)
(***************************************************************************)
MaxCoord == 2
MaxTenth == 1
MaxLerp == 10
MaxT == 3
MaxMouse == 1

(***************************************************************************)
(* Natural numbers of any size                                             *)
(***************************************************************************)
LimbBits == 15

Limb == 2^LimbBits

RECURSIVE bigTrim(_)
bigTrim(a) ==
  IF a = <<>> THEN a
  ELSE IF a[Len(a)] = 0 THEN bigTrim(SubSeq(a, 1, Len(a) - 1))
  ELSE a

RECURSIVE bigFromInt(_)
bigFromInt(n) ==
  IF n = 0 THEN <<>> ELSE <<n % Limb>> \o bigFromInt(n \div Limb)

RECURSIVE bigAddC(_, _, _)
bigAddC(a, b, c) ==
  IF b = <<>> /\ c = 0 THEN a
  ELSE IF a = <<>> /\ c = 0 THEN b
  ELSE IF a = <<>> /\ b = <<>> THEN <<c>>
  ELSE LET x == IF a = <<>> THEN 0 ELSE Head(a)
           y == IF b = <<>> THEN 0 ELSE Head(b)
           sum == x + y + c
       IN  <<sum % Limb>> \o
             bigAddC(IF a = <<>> THEN a ELSE Tail(a),
                     IF b = <<>> THEN b ELSE Tail(b),
                     sum \div Limb)

bigAdd(a, b) == bigAddC(a, b, 0)

RECURSIVE bigSubB(_, _, _)
bigSubB(a, b, c) ==
  IF b = <<>> /\ c = 0 THEN a
  ELSE LET y == IF b = <<>> THEN 0 ELSE Head(b)
           d == Head(a) - y - c
       IN  <<d % Limb>> \o
             bigSubB(Tail(a), IF b = <<>> THEN b ELSE Tail(b),
                     IF d < 0 THEN 1 ELSE 0)

\* a - b, for a >= b
bigSub(a, b) == bigTrim(bigSubB(a, b, 0))

\* -1, 0 or 1 as a < b, a = b or a > b
RECURSIVE bigCmp(_, _)
bigCmp(a, b) ==
  IF Len(a) # Len(b) THEN (IF Len(a) > Len(b) THEN 1 ELSE -1)
  ELSE IF a = <<>> THEN 0
  ELSE IF a[Len(a)] # b[Len(b)]
         THEN (IF a[Len(a)] > b[Len(b)] THEN 1 ELSE -1)
  ELSE bigCmp(SubSeq(a, 1, Len(a) - 1), SubSeq(b, 1, Len(b) - 1))

RECURSIVE bigMulSmallC(_, _, _)
bigMulSmallC(a, n, c) ==
  IF a = <<>> THEN (IF c = 0 THEN <<>> ELSE <<c>>)
  ELSE LET p == Head(a) * n + c
       IN  <<p % Limb>> \o bigMulSmallC(Tail(a), n, p \div Limb)

\* a * n, for n < Limb
bigMulSmall(a, n) ==
  IF n = 0 THEN <<>> ELSE IF n = 1 THEN a ELSE bigMulSmallC(a, n, 0)

bigShiftLimbs(a, n) ==
  IF a = <<>> \/ n = 0 THEN a ELSE [i \in 1..n |-> 0] \o a

RECURSIVE bigMul(_, _)
bigMul(a, b) ==
  IF b = <<>> \/ a = <<>> THEN <<>>
  ELSE bigAdd(bigMulSmall(a, Head(b)), bigShiftLimbs(bigMul(a, Tail(b)), 1))

RECURSIVE bitLen(_)
bitLen(n) == IF n = 0 THEN 0 ELSE 1 + bitLen(n \div 2)

bigBitLen(a) ==
  IF a = <<>> THEN 0 ELSE LimbBits * (Len(a) - 1) + bitLen(a[Len(a)])

\* a * 2^n
bigShl(a, n) == bigShiftLimbs(bigMulSmall(a, 2^(n % LimbBits)), n \div LimbBits)

\* a \div 2^n
bigShr(a, n) ==
  LET q == n \div LimbBits
      r == n % LimbBits
  IN  IF q >= Len(a) THEN <<>>
      ELSE LET b == SubSeq(a, q + 1, Len(a))
           IN  IF r = 0 THEN b
               ELSE bigTrim([i \in 1..Len(b) |->
                      (b[i] \div 2^r)
                        + (IF i < Len(b)
                             THEN (b[i + 1] % 2^r) * 2^(LimbBits - r)
                             ELSE 0)])

\* bit i of a, bit 0 the least significant
bigBit(a, i) ==
  IF i \div LimbBits >= Len(a) THEN 0
  ELSE (a[(i \div LimbBits) + 1] \div 2^(i % LimbBits)) % 2

\* the n least significant bits of a are all 0
bigLowZero(a, n) ==
  \A i \in 1..Len(a) :
    /\ (i <= n \div LimbBits) => a[i] = 0
    /\ (i = (n \div LimbBits) + 1) => a[i] % 2^(n % LimbBits) = 0

RECURSIVE trailingZeros(_)
trailingZeros(n) == IF n % 2 = 1 THEN 0 ELSE 1 + trailingZeros(n \div 2)

\* the number of 0 bits below the least significant 1 bit of a # 0
RECURSIVE bigTrailingZeros(_)
bigTrailingZeros(a) ==
  IF Head(a) = 0 THEN LimbBits + bigTrailingZeros(Tail(a))
  ELSE trailingZeros(Head(a))

(***************************************************************************)
(* JavaScript numbers                                                      *)
(***************************************************************************)
Precision == 53

NULL == [null |-> TRUE]

\* 0 and -0
SignedZero(s) == [k |-> "num", s |-> s, m |-> <<>>, e |-> 0]

Zero == SignedZero(1)

NaN == [k |-> "nan", s |-> 1, m |-> <<>>, e |-> 0]

Infinity(s) == [k |-> "inf", s |-> s, m |-> <<>>, e |-> 0]

\* s * M * 2^e for M # 0, the mantissa made odd
Exact(s, M, e) ==
  IF M = <<>> THEN Zero
  ELSE LET z == bigTrailingZeros(M)
       IN  [k |-> "num", s |-> s, m |-> bigShr(M, z), e |-> e + z]

\* 2^MaxExponent is the least power of 2 above every double, 2^MinExponent
\* the least double above 0
MaxExponent == 1024

MinExponent == -1074

\* s * M * 2^e when it is below 2^MaxExponent, and Infinity or -Infinity
\* otherwise
Finite(s, M, e) ==
  IF M = <<>> THEN SignedZero(s)
  ELSE IF bigBitLen(M) + e > MaxExponent THEN Infinity(s)
  ELSE Exact(s, M, e)

\* The double nearest to s * M * 2^e, ties to even: the mantissa keeps
\* Precision bits, or the bits down to 2^MinExponent when s * M * 2^e is
\* subnormal; a result of 2^MaxExponent or more is Infinity or -Infinity
Round(s, M, e) ==
  IF M = <<>> THEN SignedZero(s)
  ELSE LET L == bigBitLen(M)
           q == IF L + e - Precision < MinExponent THEN MinExponent
                ELSE L + e - Precision
           d == q - e
       IN  IF d <= 0 THEN Finite(s, M, e)
           ELSE LET Q == bigShr(M, d)
                    up == /\ bigBit(M, d - 1) = 1
                          /\ \/ ~bigLowZero(M, d - 1)
                             \/ Q # <<>> /\ Q[1] % 2 = 1
                IN  Finite(s, IF up THEN bigAdd(Q, <<1>>) ELSE Q, q)

\* The number of an integer literal
FromInt(n) == Exact(IF n < 0 THEN -1 ELSE 1, bigFromInt(IF n < 0 THEN -n ELSE n), 0)

IsZero(x) == x.k = "num" /\ x.m = <<>>

Negate(x) == IF x.k = "nan" THEN x ELSE [x EXCEPT !.s = -x.s]

\* -1, 0 or 1 as |x| < |y|, |x| = |y| or |x| > |y|, for finite x and y
CmpAbs(x, y) ==
  IF x.m = <<>> \/ y.m = <<>>
    THEN (IF x.m = y.m THEN 0 ELSE IF x.m = <<>> THEN -1 ELSE 1)
  ELSE LET lx == bigBitLen(x.m) + x.e
           ly == bigBitLen(y.m) + y.e
           e == IF x.e < y.e THEN x.e ELSE y.e
       IN  IF lx # ly THEN (IF lx > ly THEN 1 ELSE -1)
           ELSE bigCmp(bigShl(x.m, x.e - e), bigShl(y.m, y.e - e))

\* -1, 0 or 1 as x < y, x = y or x > y, for finite x and y
Cmp(x, y) ==
  LET sx == IF IsZero(x) THEN 0 ELSE x.s
      sy == IF IsZero(y) THEN 0 ELSE y.s
  IN  IF sx # sy THEN (IF sx > sy THEN 1 ELSE -1)
      ELSE IF sx = 0 THEN 0
      ELSE sx * CmpAbs(x, y)

\* x >= y and x <= y; false when x or y is NaN
Geq(x, y) ==
  /\ x.k # "nan"
  /\ y.k # "nan"
  /\ IF x.k = "inf" THEN x.s = 1 \/ (y.k = "inf" /\ y.s = -1)
     ELSE IF y.k = "inf" THEN y.s = -1
     ELSE Cmp(x, y) >= 0

Leq(x, y) == Geq(y, x)

\* |y| is below a quarter of the last of the Precision bits of x, for
\* finite x and y other than 0: x + y then rounds to x
Negligible(y, x) ==
  bigBitLen(x.m) + x.e - (bigBitLen(y.m) + y.e) > Precision + 2

\* x + y, rounded when round is TRUE and exact otherwise
Sum(x, y, round) ==
  IF x.k = "nan" \/ y.k = "nan" THEN NaN
  ELSE IF x.k = "inf"
    THEN (IF y.k = "inf" /\ y.s # x.s THEN NaN ELSE x)
  ELSE IF y.k = "inf" THEN y
  ELSE IF IsZero(x) /\ IsZero(y) THEN (IF x.s = y.s THEN x ELSE Zero)
  ELSE IF IsZero(x) THEN y
  ELSE IF IsZero(y) THEN x
  ELSE IF round /\ Negligible(y, x) THEN x
  ELSE IF round /\ Negligible(x, y) THEN y
  ELSE LET e == IF x.e < y.e THEN x.e ELSE y.e
           X == bigShl(x.m, x.e - e)
           Y == bigShl(y.m, y.e - e)
           c == bigCmp(X, Y)
           s == IF c >= 0 THEN x.s ELSE y.s
           M == IF x.s = y.s THEN bigAdd(X, Y)
                ELSE IF c >= 0 THEN bigSub(X, Y) ELSE bigSub(Y, X)
       IN  IF M = <<>> THEN Zero
           ELSE IF round THEN Round(s, M, e) ELSE Exact(s, M, e)

\* x * y, rounded when round is TRUE and exact otherwise
Product(x, y, round) ==
  IF x.k = "nan" \/ y.k = "nan" THEN NaN
  ELSE IF x.k = "inf" \/ y.k = "inf"
    THEN (IF IsZero(x) \/ IsZero(y) THEN NaN ELSE Infinity(x.s * y.s))
  ELSE IF IsZero(x) \/ IsZero(y) THEN SignedZero(x.s * y.s)
  ELSE LET M == bigMul(x.m, y.m)
       IN  IF round THEN Round(x.s * y.s, M, x.e + y.e)
           ELSE Exact(x.s * y.s, M, x.e + y.e)

\* The JavaScript operators +, - and * on two numbers
Plus(x, y) == Sum(x, y, TRUE)

Minus(x, y) == Sum(x, Negate(y), TRUE)

Times(x, y) == Product(x, y, TRUE)

\* One step of the long division by D: the next bit of the quotient QR[1]
\* and the remainder QR[2] that goes with it
divisionStep(QR, D) ==
  LET R2 == bigAdd(QR[2], QR[2])
      Q2 == bigAdd(QR[1], QR[1])
  IN  IF bigCmp(R2, D) >= 0
        THEN <<bigAdd(Q2, <<1>>), bigSub(R2, D)>>
        ELSE <<Q2, R2>>

\* The quotient and the remainder after n more steps
RECURSIVE quotientBits(_, _, _)
quotientBits(QR, D, n) ==
  IF n = 0 THEN QR
  ELSE IF QR[2] = <<>> THEN <<bigShl(QR[1], n), <<>>>>
  ELSE quotientBits(divisionStep(QR, D), D, n - 1)

\* The quotient and the remainder of the number a by the digit d # 0
RECURSIVE bigDivSmall(_, _)
bigDivSmall(a, d) ==
  IF a = <<>> THEN << <<>>, 0 >>
  ELSE LET hi == bigDivSmall(Tail(a), d)
           cur == hi[2] * Limb + Head(a)
       IN  << <<cur \div d>> \o hi[1], cur % d >>

\* x / y for finite x and y other than 0, the mantissa of y a single digit:
\* the mantissa of x, shifted to give a quotient of more than Precision + 2
\* bits, is divided digit by digit
divideBySmall(x, y) ==
  LET k == Precision + 3 + LimbBits
      QR == bigDivSmall(bigShl(x.m, k), y.m[1])
      sticky == IF QR[2] = 0 THEN <<>> ELSE <<1>>
      Q == bigTrim(QR[1])
  IN  Round(x.s * y.s, bigAdd(bigAdd(Q, Q), sticky), x.e - y.e - k - 1)

\* x / y for finite x and y other than 0: long division, bit by bit
divideLong(x, y) ==
  LET lx == bigBitLen(x.m)
      ly == bigBitLen(y.m)
      N == IF lx < ly THEN bigShl(x.m, ly - lx) ELSE x.m
      D == IF lx > ly THEN bigShl(y.m, lx - ly) ELSE y.m
      first == bigCmp(N, D) >= 0
      steps == Precision + 3
      QR == quotientBits(IF first THEN << <<1>>, bigSub(N, D) >>
                                  ELSE << <<>>, N >>,
                         D, steps)
      sticky == IF QR[2] = <<>> THEN <<>> ELSE <<1>>
  IN  Round(x.s * y.s, bigAdd(bigAdd(QR[1], QR[1]), sticky),
            x.e - y.e + lx - ly - steps - 1)

\* The JavaScript operator / on two numbers
Divide(x, y) ==
  IF x.k = "nan" \/ y.k = "nan" THEN NaN
  ELSE IF x.k = "inf"
    THEN (IF y.k = "inf" THEN NaN ELSE Infinity(x.s * y.s))
  ELSE IF y.k = "inf" THEN SignedZero(x.s * y.s)
  ELSE IF IsZero(y)
    THEN (IF IsZero(x) THEN NaN ELSE Infinity(x.s * y.s))
  ELSE IF IsZero(x) THEN SignedZero(x.s * y.s)
  ELSE IF Len(y.m) = 1 THEN divideBySmall(x, y)
  ELSE divideLong(x, y)
One == FromInt(1)

\* x is an integer
IsInteger(x) == x.k = "num" /\ x.e >= 0

(***************************************************************************)
(* Mathy.lerp                                                              *)
(***************************************************************************)
\* t clamped to [0, 1].
lerpClamped(A, B, t) ==
  IF Leq(t, Zero) THEN A
  ELSE IF Geq(t, One) THEN B
  ELSE Plus(A, Times(Minus(B, A), t))

\* B + A for B - A.
lerpSum(A, B, t) == Plus(A, Times(Plus(B, A), t))

\* A + (B - A) * t
lerp(A, B, t) == Plus(A, Times(Minus(B, A), t))

(***************************************************************************)
(* Mathy.calculateIntersection                                             *)
(***************************************************************************)
\* The coordinates of AB = S and CD = T
Ax(S) == S[1].x

Ay(S) == S[1].y

Bx(S) == S[2].x

By(S) == S[2].y

Cx(T) == T[1].x

Cy(T) == T[1].y

Dx(T) == T[2].x

Dy(T) == T[2].y

\* The last term added.
tNumeratorSlip(S, T) ==
  Plus(Plus(Plus(Minus(Plus(Minus(Minus(
    Times(Ay(S), Dx(T)),
    Times(Cy(T), Dx(T))),
    Times(Ay(S), Cx(T))),
    Times(Cy(T), Cx(T))),
    Times(Ax(S), Dy(T))),
    Times(Cx(T), Dy(T))),
    Times(Ax(S), Cy(T))),
    Times(Cx(T), Cy(T)))

\* AY * DX - CY * DX - AY * CX + CY * CX
\*   - AX * DY + CX * DY + AX * CY - CX * CY
tNumerator(S, T) ==
  Minus(Plus(Plus(Minus(Plus(Minus(Minus(
    Times(Ay(S), Dx(T)),
    Times(Cy(T), Dx(T))),
    Times(Ay(S), Cx(T))),
    Times(Cy(T), Cx(T))),
    Times(Ax(S), Dy(T))),
    Times(Cx(T), Dy(T))),
    Times(Ax(S), Cy(T))),
    Times(Cx(T), Cy(T)))

\* The second term added.
tDividerSlip(S, T) ==
  Minus(Plus(Plus(Minus(Plus(Minus(Plus(
    Times(Bx(S), Dy(T)),
    Times(Ax(S), Dy(T))),
    Times(Bx(S), Cy(T))),
    Times(Ax(S), Cy(T))),
    Times(By(S), Dx(T))),
    Times(Ay(S), Dx(T))),
    Times(By(S), Cx(T))),
    Times(Ay(S), Cx(T)))

\* BX * DY - AX * DY - BX * CY + AX * CY
\*   - BY * DX + AY * DX + BY * CX - AY * CX
tDivider(S, T) ==
  Minus(Plus(Plus(Minus(Plus(Minus(Minus(
    Times(Bx(S), Dy(T)),
    Times(Ax(S), Dy(T))),
    Times(Bx(S), Cy(T))),
    Times(Ax(S), Cy(T))),
    Times(By(S), Dx(T))),
    Times(Ay(S), Dx(T))),
    Times(By(S), Cx(T))),
    Times(Ay(S), Cx(T)))

\* The last term added.
uNumeratorSlip(S, T) ==
  Plus(Plus(Plus(Minus(Plus(Minus(Minus(
    Times(Cx(T), By(S)),
    Times(Ax(S), By(S))),
    Times(Cx(T), Ay(S))),
    Times(Ax(S), Ay(S))),
    Times(Cy(T), Bx(S))),
    Times(Ay(S), Bx(S))),
    Times(Cy(T), Ax(S))),
    Times(Ay(S), Ax(S)))

\* CX * BY - AX * BY - CX * AY + AX * AY
\*   - CY * BX + AY * BX + CY * AX - AY * AX
uNumerator(S, T) ==
  Minus(Plus(Plus(Minus(Plus(Minus(Minus(
    Times(Cx(T), By(S)),
    Times(Ax(S), By(S))),
    Times(Cx(T), Ay(S))),
    Times(Ax(S), Ay(S))),
    Times(Cy(T), Bx(S))),
    Times(Ay(S), Bx(S))),
    Times(Cy(T), Ax(S))),
    Times(Ay(S), Ax(S)))

\* CX * BY for CX * AY in the last term.
uDividerSlip(S, T) ==
  Minus(Plus(Plus(Minus(Plus(Minus(Minus(
    Times(Dy(T), Bx(S)),
    Times(Cy(T), Bx(S))),
    Times(Dy(T), Ax(S))),
    Times(Cy(T), Ax(S))),
    Times(Dx(T), By(S))),
    Times(Cx(T), By(S))),
    Times(Dx(T), Ay(S))),
    Times(Cx(T), By(S)))

\* DY * BX - CY * BX - DY * AX + CY * AX
\*   - DX * BY + CX * BY + DX * AY - CX * AY
uDivider(S, T) ==
  Minus(Plus(Plus(Minus(Plus(Minus(Minus(
    Times(Dy(T), Bx(S)),
    Times(Cy(T), Bx(S))),
    Times(Dy(T), Ax(S))),
    Times(Cy(T), Ax(S))),
    Times(Dx(T), By(S))),
    Times(Cx(T), By(S))),
    Times(Dx(T), Ay(S))),
    Times(Cx(T), Ay(S)))

\* The frame of a call at its return: the constants of the body and the
\* value returned
Frame(tn, td, un, ud, t, u, value) ==
  [tNumerator |-> tn, tDivider |-> td, uNumerator |-> un, uDivider |-> ud,
   t |-> t, u |-> u, value |-> value]

\* The range test written on the numerators and dividers, without the
\* divider guard.
rangeTestNoGuard(S, T, tn, td, un, ud, t, u) ==
  Frame(tn, td, un, ud, t, u,
    IF /\ Geq(Times(tn, td), Zero) /\ Leq(Times(tn, td), Times(td, td))
       /\ Geq(Times(un, ud), Zero) /\ Leq(Times(un, ud), Times(ud, ud))
      THEN [x |-> lerp(S[1].x, S[2].x, t), y |-> lerp(S[1].y, S[2].y, t)]
      ELSE NULL)

\* The test u <= 1 left out.
rangeTestNoUpper(S, T, tn, td, un, ud, t, u) ==
  Frame(tn, td, un, ud, t, u,
    IF /\ Geq(t, Zero) /\ Leq(t, One)
       /\ Geq(u, Zero)
       /\ ~IsZero(td)
      THEN [x |-> lerp(S[1].x, S[2].x, t), y |-> lerp(S[1].y, S[2].y, t)]
      ELSE NULL)

\* The bounds of the range test exclusive.
rangeTestStrict(S, T, tn, td, un, ud, t, u) ==
  Frame(tn, td, un, ud, t, u,
    IF /\ Geq(t, Zero) /\ ~IsZero(t) /\ Leq(t, One)
       /\ Geq(u, Zero) /\ Leq(u, One) /\ u # One
       /\ ~IsZero(td)
      THEN [x |-> lerp(S[1].x, S[2].x, t), y |-> lerp(S[1].y, S[2].y, t)]
      ELSE NULL)

\* if (t >= 0 && t <= 1 && u >= 0 && u <= 1 && tDivider !== 0)
\*   return {x: lerp(AB[0].x, AB[1].x, t), y: lerp(AB[0].y, AB[1].y, t)}
\* return null
rangeTest(S, T, tn, td, un, ud, t, u) ==
  Frame(tn, td, un, ud, t, u,
    IF /\ Geq(t, Zero) /\ Leq(t, One)
       /\ Geq(u, Zero) /\ Leq(u, One)
       /\ ~IsZero(td)
      THEN [x |-> lerp(S[1].x, S[2].x, t), y |-> lerp(S[1].y, S[2].y, t)]
      ELSE NULL)

\* t = tNumerator / tDivider, u = uNumerator / uDivider, then the range test
quotients(S, T, tn, td, un, ud) ==
  rangeTest(S, T, tn, td, un, ud, Divide(tn, td), Divide(un, ud))

\* calculateIntersection(AB, CD) with AB = S and CD = T
calculateIntersection(S, T) ==
  quotients(S, T, tNumerator(S, T), tDivider(S, T),
            uNumerator(S, T), uDivider(S, T))

(***************************************************************************)
(* Inputs                                                                  *)
(***************************************************************************)
\* The integers 0 .. MaxCoord
IntCoords == {FromInt(n) : n \in 0..MaxCoord}

\* 1 and the tenths 0.1 .. MaxTenth / 10: the literals 0.1, 0.2, ...
TenthCoords ==
  {One} \cup {Divide(FromInt(n), FromInt(10)) : n \in 1..MaxTenth}

\* 0 and 1
UnitCoords == {Zero, One}

IntPoints == [x : IntCoords, y : IntCoords]

TenthPoints == [x : TenthCoords, y : TenthCoords]

\* The corners of the unit square
UnitPoints == [x : UnitCoords, y : UnitCoords]

\* 0 and 2^(MaxExponent - 1): the product of two such coordinates is 0 or
\* more than every double
HugeCoords == {Zero, Exact(1, <<1>>, MaxExponent - 1)}

\* 0 and 2^MinExponent: the product of two such coordinates is 0 or less
\* than every double above 0
TinyCoords == {Zero, Exact(1, <<1>>, MinExponent)}

HugePoints == [x : HugeCoords, y : HugeCoords]

TinyPoints == [x : TinyCoords, y : TinyCoords]

\* The arguments of lerp: integers, tenths, 2^(MaxExponent - 1),
\* -2^(MaxExponent - 1) and 2^MinExponent for A and B, halves for t
LerpValues ==
  {FromInt(n) : n \in 0..MaxLerp}
    \cup {Divide(FromInt(n), FromInt(10)) : n \in 0..MaxLerp}
    \cup {Exact(1, <<1>>, MaxExponent - 1), Exact(-1, <<1>>, MaxExponent - 1),
          Exact(1, <<1>>, MinExponent)}

Ts == {Divide(FromInt(n), FromInt(d)) : n \in (-MaxT)..MaxT, d \in 1..2}

(***************************************************************************)
(* App                                                                     *)
(***************************************************************************)
mouseSegmentRadius == 50

\* The timestamps, in tenths of a millisecond, that requestAnimationFrame
\* hands to run
TimeTenths == {167, 334, 10000, 15708}

FrameTimes == {Divide(FromInt(n), FromInt(10)) : n \in TimeTenths}

\* Math.cos and Math.sin at the angles t * 0.001 of the timestamps
Trig == {
  \* t = 0.0: cos 1.0, sin 0.0
  [angle |-> [k |-> "num", s |-> 1, m |-> <<>>, e |-> 0],
   cos |-> [k |-> "num", s |-> 1, m |-> <<1>>, e |-> 0],
   sin |-> [k |-> "num", s |-> 1, m |-> <<>>, e |-> 0]],
  \* t = 16.7: cos 0.9998605582407879, sin 0.016699223766990925
  [angle |-> [k |-> "num", s |-> 1, m |-> <<14313, 1887, 13212, 68>>, e |-> -57],
   cos |-> [k |-> "num", s |-> 1, m |-> <<2857, 9101, 31598, 255>>, e |-> -53],
   sin |-> [k |-> "num", s |-> 1, m |-> <<3895, 24469, 26215, 136>>, e |-> -58]],
  \* t = 33.4: cos 0.99944227185116, sin 0.03339379039570276
  [angle |-> [k |-> "num", s |-> 1, m |-> <<14313, 1887, 13212, 68>>, e |-> -56],
   cos |-> [k |-> "num", s |-> 1, m |-> <<14771, 11773, 31598, 63>>, e |-> -51],
   sin |-> [k |-> "num", s |-> 1, m |-> <<11757, 22158, 25590, 136>>, e |-> -57]],
  \* t = 1000.0: cos 0.5403023058681398, sin 0.8414709848078965
  [angle |-> [k |-> "num", s |-> 1, m |-> <<1>>, e |-> 0],
   cos |-> [k |-> "num", s |-> 1, m |-> <<16803, 2010, 18984, 34>>, e |-> -51],
   sin |-> [k |-> "num", s |-> 1, m |-> <<1655, 3849, 23209, 107>>, e |-> -52]],
  \* t = 1570.8: cos -3.673205103346574e-06, sin 0.9999999999932537
  [angle |-> [k |-> "num", s |-> 1, m |-> <<26791, 23697, 2044, 201>>, e |-> -52],
   cos |-> [k |-> "num", s |-> -1, m |-> <<24515, 28218, 20517, 61>>, e |-> -69],
   sin |-> [k |-> "num", s |-> 1, m |-> <<4771, 32766, 32767, 255>>, e |-> -53]]
}

MathCos(angle) == (CHOOSE r \in Trig : r.angle = angle).cos

MathSin(angle) == (CHOOSE r \in Trig : r.angle = angle).sin

\* #mouseSegment as the field initializer leaves it
mouseSegmentInit ==
  << [x |-> FromInt(0), y |-> FromInt(0), label |-> "MouseA"],
     [x |-> FromInt(10), y |-> FromInt(10), label |-> "MouseB"] >>

\* The lists of segments handed to the constructor
SegmentLists ==
  LET P == [x |-> FromInt(0), y |-> FromInt(0), label |-> "A"]
      Q == [x |-> FromInt(100), y |-> FromInt(100), label |-> "B"]
      R == [x |-> FromInt(0), y |-> FromInt(100), label |-> "C"]
      S == [x |-> FromInt(100), y |-> FromInt(0), label |-> "D"]
  IN  { <<>>, << <<P, Q>> >>, << <<P, Q>>, <<R, S>> >> }

\* window.innerWidth, window.innerHeight
WindowSizes == { <<800, 600>>, <<1024, 768>> }

\* #mouseSegment is the last element of this.segments
mouseSegment == segments[Len(segments)]

\* #updateMouseSegment(angle)
updateMouseSegment(angle) ==
  LET x == Times(MathCos(angle), FromInt(mouseSegmentRadius))
      y == Times(MathSin(angle), FromInt(mouseSegmentRadius))
  IN  << [x |-> Plus(mouse.x, x), y |-> Plus(mouse.y, y),
          label |-> "MouseA"],
         [x |-> Minus(mouse.x, x), y |-> Minus(mouse.y, y),
          label |-> "MouseB"] >>

\* #drawSegment(segment), #drawPoint(segment[0]), #drawPoint(segment[1])
drawOne(segment) ==
  << <<"segment", segment>>, <<"point", segment[1]>>, <<"point", segment[2]>> >>

\* #drawSegments: the drawing operations of this.segments.forEach, in order
RECURSIVE drawSegments(_)
drawSegments(segs) ==
  IF segs = <<>> THEN <<>>
  ELSE drawOne(Head(segs)) \o drawSegments(Tail(segs))

\* run(t): clearRect of the whole canvas, #updateMouseSegment(t * 0.001),
\* #drawSegments, requestAnimationFrame
Run(t) ==
  LET angle == Times(t, Divide(FromInt(1), FromInt(1000)))
      segs == [segments EXCEPT ![Len(segments)] = updateMouseSegment(angle)]
  IN  /\ segments' = segs
      /\ canvas' = drawSegments(segs)
      /\ pending' = TRUE
      /\ UNCHANGED <<mouse, canvasSize, intersectionCalls>>

(***************************************************************************)
(* Specification of calculateIntersection                                  *)
(***************************************************************************)
AppIdle ==
  /\ segments = <<mouseSegmentInit>>
  /\ mouse = [x |-> Zero, y |-> Zero]
  /\ canvas = <<>>
  /\ canvasSize = <<800, 600>>
  /\ started = FALSE
  /\ pending = FALSE
  /\ intersectionCalls = <<>>

LerpIdle ==
  /\ lerpA = Zero
  /\ lerpB = Zero
  /\ lerpT = Zero
  /\ lerpResult = NULL

MathIdle ==
  /\ AB = << [x |-> Zero, y |-> Zero], [x |-> Zero, y |-> Zero] >>
  /\ CD = << [x |-> Zero, y |-> Zero], [x |-> Zero, y |-> Zero] >>
  /\ result = NULL
  /\ locals = NULL

Init ==
  /\ \/ AB \in IntPoints \X IntPoints /\ CD \in IntPoints \X IntPoints
     \/ AB \in TenthPoints \X TenthPoints /\ CD \in UnitPoints \X UnitPoints
     \/ AB \in HugePoints \X HugePoints /\ CD \in HugePoints \X HugePoints
     \/ AB \in TinyPoints \X TinyPoints /\ CD \in TinyPoints \X TinyPoints
  /\ result = NULL
  /\ locals = NULL
  /\ pc = "call"
  /\ LerpIdle
  /\ AppIdle

CalculateIntersection ==
  /\ pc = "call"
  /\ LET frame == calculateIntersection(AB, CD)
     IN  /\ result' = frame.value
         /\ locals' = frame
  /\ pc' = "done"
  /\ UNCHANGED <<AB, CD>>
  /\ UNCHANGED lerpVars
  /\ UNCHANGED appVars

Next == CalculateIntersection

Spec == Init /\ [][Next]_vars

(***************************************************************************)
(* Specification of lerp                                                   *)
(***************************************************************************)
InitLerp ==
  /\ lerpA \in LerpValues
  /\ lerpB \in LerpValues
  /\ lerpT \in Ts
  /\ lerpResult = NULL
  /\ pc = "call"
  /\ MathIdle
  /\ AppIdle

Lerp ==
  /\ pc = "call"
  /\ lerpResult' = lerp(lerpA, lerpB, lerpT)
  /\ pc' = "done"
  /\ UNCHANGED <<lerpA, lerpB, lerpT>>
  /\ UNCHANGED <<AB, CD, result, locals>>
  /\ UNCHANGED appVars

NextLerp == Lerp

SpecLerp == InitLerp /\ [][NextLerp]_vars

(***************************************************************************)
(* Specification of App                                                    *)
(***************************************************************************)
\* constructor(segments): this.segments = [...segments, this.#mouseSegment],
\* #initCanvas (with its first #resizeCanvas), #initMouse
InitApp ==
  /\ \E list \in SegmentLists : segments = Append(list, mouseSegmentInit)
  /\ mouse = [x |-> Zero, y |-> Zero]
  /\ canvas = <<>>
  /\ canvasSize \in WindowSizes
  /\ started = FALSE
  /\ pending = FALSE
  /\ intersectionCalls = <<>>
  /\ pc = "call"
  /\ MathIdle
  /\ LerpIdle

\* The first call, run(): t = 0
Start ==
  /\ ~started
  /\ started' = TRUE
  /\ Run(FromInt(0))
  /\ UNCHANGED mathVars
  /\ UNCHANGED lerpVars

\* The callback of requestAnimationFrame: run(t) at the frame's timestamp
AnimationFrame ==
  /\ pending
  /\ \E t \in FrameTimes : Run(t)
  /\ UNCHANGED started
  /\ UNCHANGED mathVars
  /\ UNCHANGED lerpVars

\* The mousemove listener of #initMouse
MouseMove ==
  /\ \E x \in 0..MaxMouse, y \in 0..MaxMouse :
       mouse' = [x |-> FromInt(x), y |-> FromInt(y)]
  /\ UNCHANGED <<segments, canvas, canvasSize, started, pending,
                 intersectionCalls>>
  /\ UNCHANGED mathVars
  /\ UNCHANGED lerpVars

\* The resize listener #resizeCanvas: assigning canvas.width and
\* canvas.height clears the canvas
Resize ==
  /\ canvasSize' \in WindowSizes
  /\ canvas' = <<>>
  /\ UNCHANGED <<segments, mouse, started, pending, intersectionCalls>>
  /\ UNCHANGED mathVars
  /\ UNCHANGED lerpVars

NextApp == Start \/ AnimationFrame \/ MouseMove \/ Resize

SpecApp == InitApp /\ [][NextApp]_vars

(***************************************************************************)
(* Exact arithmetic and plane geometry the properties are stated in        *)
(***************************************************************************)
ExactPlus(x, y) == Sum(x, y, FALSE)

ExactMinus(x, y) == Sum(x, Negate(y), FALSE)

ExactTimes(x, y) == Product(x, y, FALSE)

\* -1, 0 or 1 as x < 0, x = 0 or x > 0
Sgn(x) == IF IsZero(x) THEN 0 ELSE x.s

\* 0 <= x <= 1, read off the sign, mantissa and exponent of x
InUnit(x) ==
  /\ x.k = "num"
  /\ \/ x.m = <<>>
     \/ x.s = 1 /\ bigBitLen(x.m) + x.e <= 0
     \/ x.s = 1 /\ x.m = <<1>> /\ x.e = 0

\* Twice the signed area of the triangle p, q, r.
Orient(p, q, r) ==
  ExactMinus(ExactTimes(ExactMinus(q.x, p.x), ExactMinus(r.y, p.y)),
             ExactTimes(ExactMinus(q.y, p.y), ExactMinus(r.x, p.x)))

Between(a, b, c) == (Leq(a, c) /\ Leq(c, b)) \/ (Leq(b, c) /\ Leq(c, a))

\* r is a point of the finite segment from p to q.
OnSegment(p, q, r) ==
  /\ Between(p.x, q.x, r.x)
  /\ Between(p.y, q.y, r.y)
  /\ IsZero(Orient(p, q, r))

\* The finite segments S and T have at least one point in common.
ShareAPoint(S, T) ==
  \/ /\ Sgn(Orient(S[1], S[2], T[1])) * Sgn(Orient(S[1], S[2], T[2])) < 0
     /\ Sgn(Orient(T[1], T[2], S[1])) * Sgn(Orient(T[1], T[2], S[2])) < 0
  \/ OnSegment(S[1], S[2], T[1])
  \/ OnSegment(S[1], S[2], T[2])
  \/ OnSegment(T[1], T[2], S[1])
  \/ OnSegment(T[1], T[2], S[2])

\* (Bx - Ax)(Dy - Cy) - (By - Ay)(Dx - Cx), exactly
Cross(S, T) ==
  ExactMinus(
    ExactTimes(ExactMinus(S[2].x, S[1].x), ExactMinus(T[2].y, T[1].y)),
    ExactTimes(ExactMinus(S[2].y, S[1].y), ExactMinus(T[2].x, T[1].x)))

Degenerate(S) == S[1] = S[2]

\* The point e is an end of S and of T, and S and T have no other point in
\* common; p and q are the other ends of S and T.
OnlyCommonPoint(e, p, q) ==
  \/ ~IsZero(Orient(e, p, q))
  \/ Sgn(ExactPlus(ExactTimes(ExactMinus(p.x, e.x), ExactMinus(q.x, e.x)),
                   ExactTimes(ExactMinus(p.y, e.y), ExactMinus(q.y, e.y))))
       < 0

\* S and T are not degenerate and have exactly one point in common, the
\* point e, which is an end of both.
MeetAtEnd(S, T, e) ==
  /\ ~Degenerate(S)
  /\ ~Degenerate(T)
  /\ \E i \in 1..2, j \in 1..2 :
       /\ S[i] = e
       /\ T[j] = e
       /\ OnlyCommonPoint(e, S[3 - i], T[3 - j])

\* x is an integer small enough for the eight products of two coordinates
\* and their sums to be exact in Precision bits.
BoundedInteger(x) ==
  IsInteger(x) /\ bigBitLen(x.m) + x.e <= (Precision - 3) \div 2

\* Every coordinate of the two segments is a bounded integer.
IntegerInput ==
  \A i \in 1..2 :
    /\ BoundedInteger(AB[i].x) /\ BoundedInteger(AB[i].y)
    /\ BoundedInteger(CD[i].x) /\ BoundedInteger(CD[i].y)

\* x === y
Same(x, y) == Geq(x, y) /\ Leq(x, y)

\* x > y and x < y
Greater(x, y) == Geq(x, y) /\ ~Leq(x, y)

Less(x, y) == Greater(y, x)

\* A product of a coordinate of S and a coordinate of T is Infinity or
\* -Infinity.
Overflows(S, T) ==
  \E a \in {S[1].x, S[1].y, S[2].x, S[2].y} :
    \E b \in {T[1].x, T[1].y, T[2].x, T[2].y} :
      Times(a, b).k = "inf"

Returned == pc = "done"

(***************************************************************************)
(* Properties of calculateIntersection (Spec)                              *)
(***************************************************************************)
\* C1, as stated: on integer coordinates calculateIntersection returns a
\* point if and only if the two finite segments have at least one point in
\* common.
C1_PointIffCommonPoint ==
  (Returned /\ IntegerInput) => ((result # NULL) <=> ShareAPoint(AB, CD))

\* C1, amended: on integer coordinates calculateIntersection returns a point
\* if and only if the two finite segments have a point in common and are not
\* parallel (neither is degenerate); it returns null for every other input,
\* among them collinear segments that overlap or touch.
C1_PointIffCrossing ==
  (Returned /\ IntegerInput) =>
    ((result # NULL) <=> (ShareAPoint(AB, CD) /\ ~IsZero(Cross(AB, CD))))

C1_Witness ==
  /\ Returned
  /\ IntegerInput
  /\ result # NULL
  /\ Sgn(Orient(AB[1], AB[2], CD[1])) * Sgn(Orient(AB[1], AB[2], CD[2])) < 0
  /\ ~IsInteger(result.x)

\* C2: when tDivider evaluates to 0 the result is null, whatever the
\* numerators are.
C2_ZeroDividerIsNull ==
  (Returned /\ IsZero(locals.tDivider)) => result = NULL

C2_Witness ==
  /\ Returned
  /\ IsZero(locals.tDivider)
  /\ IsZero(locals.tNumerator)
  /\ IsZero(locals.uNumerator)
  /\ ~Degenerate(AB)
  /\ ~Degenerate(CD)
  /\ result = NULL

\* C3: with tDivider # 0 a point is returned exactly when 0 <= t <= 1 and
\* 0 <= u <= 1, both bounds inclusive, for t = tNumerator / tDivider and
\* u = uNumerator / uDivider.
C3_PointIffInRange ==
  (Returned /\ ~IsZero(locals.tDivider)) =>
    /\ locals.t = Divide(locals.tNumerator, locals.tDivider)
    /\ locals.u = Divide(locals.uNumerator, locals.uDivider)
    /\ (result # NULL) <=> (InUnit(locals.t) /\ InUnit(locals.u))

C3_Witness ==
  /\ Returned
  /\ ~IsZero(locals.tDivider)
  /\ IsZero(locals.t)
  /\ ~IsZero(locals.u)
  /\ locals.u # One
  /\ result # NULL

\* C4: a returned point is (lerp(Ax, Bx, t), lerp(Ay, By, t)); on bounded
\* integer coordinates and in exact arithmetic the point of AB at
\* t = tNumerator / tDivider is the point of CD at u = uNumerator / uDivider:
\*   (A * tDivider + (B - A) * tNumerator) * uDivider
\*     = (C * uDivider + (D - C) * uNumerator) * tDivider
\* in x and in y.
C4_PointOnABExactlyOnCD ==
  LET tn == locals.tNumerator  td == locals.tDivider
      un == locals.uNumerator  ud == locals.uDivider
      OnBoth(a, b, c, d) ==
        Cmp(ExactTimes(ExactPlus(ExactTimes(a, td),
                                 ExactTimes(ExactMinus(b, a), tn)), ud),
            ExactTimes(ExactPlus(ExactTimes(c, ud),
                                 ExactTimes(ExactMinus(d, c), un)), td)) = 0
  IN  (Returned /\ result # NULL) =>
        /\ result.x = lerp(AB[1].x, AB[2].x, locals.t)
        /\ result.y = lerp(AB[1].y, AB[2].y, locals.t)
        /\ IntegerInput =>
             /\ OnBoth(AB[1].x, AB[2].x, CD[1].x, CD[2].x)
             /\ OnBoth(AB[1].y, AB[2].y, CD[1].y, CD[2].y)

\* A point returned for t and u strictly between 0 and 1 and different
C4_Witness ==
  /\ Returned
  /\ IntegerInput
  /\ result # NULL
  /\ ~IsZero(locals.t) /\ locals.t # One
  /\ ~IsZero(locals.u) /\ locals.u # One
  /\ locals.u # locals.t

\* C5, as stated: two non-degenerate segments whose only common point is an
\* end of both get that end as the result.
C5_SharedEndReturned ==
  \A e \in {AB[1], AB[2]} :
    (Returned /\ MeetAtEnd(AB, CD, e)) => result = e

\* C5, amended: two non-degenerate segments with integer coordinates that
\* are not parallel and whose only common point is an end of both get that
\* end as the result (collinear segments that touch end to end get null;
\* with non-integer coordinates rounding can push t or u out of [0, 1] or
\* move the point).
C5_SharedEndOfCrossingReturned ==
  \A e \in {AB[1], AB[2]} :
    (Returned /\ IntegerInput /\ MeetAtEnd(AB, CD, e)
       /\ ~IsZero(Cross(AB, CD)))
      => result = e

C5_Witness ==
  /\ Returned
  /\ IntegerInput
  /\ AB[2] = CD[1]
  /\ MeetAtEnd(AB, CD, AB[2])
  /\ ~IsZero(Cross(AB, CD))
  /\ result = AB[2]

\* C7: when uDivider evaluates to 0 the result is null, though uDivider is
\* never tested against 0.
C7_ZeroUDividerIsNull ==
  (Returned /\ IsZero(locals.uDivider)) => result = NULL

C7_Witness ==
  /\ Returned
  /\ IsZero(locals.uDivider)
  /\ ~IsZero(locals.tDivider)
  /\ locals.u.k = "inf"
  /\ result = NULL

\* C9, as stated: when A = B or C = D, tDivider is 0 and the result is null.
C9_DegenerateZeroTDivider ==
  (Returned /\ (Degenerate(AB) \/ Degenerate(CD))) =>
    /\ IsZero(locals.tDivider)
    /\ result = NULL

\* C9, amended: when A = B, tDivider evaluates to 0, or to NaN when a
\* product of two coordinates overflows; when C = D, uDivider evaluates to 0
\* or to NaN likewise, and tDivider evaluates to 0 on bounded integer
\* coordinates; in every case the result is null, also when the single
\* point of the degenerate segment lies on the other segment.
C9_DegenerateIsNull ==
  Returned =>
    /\ Degenerate(AB) =>
         \/ IsZero(locals.tDivider)
         \/ locals.tDivider.k = "nan" /\ Overflows(AB, CD)
    /\ Degenerate(CD) =>
         \/ IsZero(locals.uDivider)
         \/ locals.uDivider.k = "nan" /\ Overflows(AB, CD)
    /\ (Degenerate(CD) /\ IntegerInput) => IsZero(locals.tDivider)
    /\ (Degenerate(AB) \/ Degenerate(CD)) => result = NULL

C9_Witness ==
  /\ Returned
  /\ Degenerate(AB)
  /\ ~Degenerate(CD)
  /\ OnSegment(CD[1], CD[2], AB[1])
  /\ AB[1] # CD[1]
  /\ AB[1] # CD[2]
  /\ result = NULL

\* The eight terms of tDivider and of uDivider, added exactly
ExactTDivider(S, T) ==
  ExactMinus(ExactPlus(ExactPlus(ExactMinus(ExactPlus(ExactMinus(ExactMinus(
    ExactTimes(Bx(S), Dy(T)), ExactTimes(Ax(S), Dy(T))),
    ExactTimes(Bx(S), Cy(T))), ExactTimes(Ax(S), Cy(T))),
    ExactTimes(By(S), Dx(T))), ExactTimes(Ay(S), Dx(T))),
    ExactTimes(By(S), Cx(T))), ExactTimes(Ay(S), Cx(T)))

ExactUDivider(S, T) ==
  ExactMinus(ExactPlus(ExactPlus(ExactMinus(ExactPlus(ExactMinus(ExactMinus(
    ExactTimes(Dy(T), Bx(S)), ExactTimes(Cy(T), Bx(S))),
    ExactTimes(Dy(T), Ax(S))), ExactTimes(Cy(T), Ax(S))),
    ExactTimes(Dx(T), By(S))), ExactTimes(Cx(T), By(S))),
    ExactTimes(Dx(T), Ay(S))), ExactTimes(Cx(T), Ay(S)))

\* C10: in exact arithmetic the eight-term expression uDivider has the value
\* of the eight-term expression tDivider for every AB and CD, so it is 0
\* exactly when tDivider is; on bounded integer coordinates, where the
\* program's arithmetic is exact, the computed uDivider is the computed
\* tDivider.  (Where rounding makes the computed uDivider 0 and the computed
\* tDivider not, u is Infinity, -Infinity or NaN and the result is null.)
C10_DividersEqual ==
  Returned =>
    /\ Same(ExactUDivider(AB, CD), ExactTDivider(AB, CD))
    /\ IsZero(ExactUDivider(AB, CD)) <=> IsZero(ExactTDivider(AB, CD))
    /\ IntegerInput =>
         /\ locals.tDivider = ExactTDivider(AB, CD)
         /\ Same(locals.uDivider, locals.tDivider)
    /\ (IsZero(locals.uDivider) /\ ~IsZero(locals.tDivider)) =>
         /\ locals.u.k # "num"
         /\ result = NULL

C10_Witness ==
  /\ Returned
  /\ IntegerInput
  /\ locals.tDivider.s = -1
  /\ Same(locals.uDivider, locals.tDivider)
  /\ result # NULL

(***************************************************************************)
(* Properties of lerp (SpecLerp)                                           *)
(***************************************************************************)
\* C6, as stated: lerp(a, b, 0) is a, lerp(a, b, 1) is b, and for t outside
\* [0, 1] the result lies outside the interval between a and b.
C6_LerpEnds ==
  LET a == lerpA  b == lerpB  t == lerpT  r == lerpResult
  IN  Returned =>
        /\ IsZero(t) => r = a
        /\ (t = One) => r = b
        /\ (Greater(t, One) /\ Less(a, b)) => Greater(r, b)
        /\ (Greater(t, One) /\ Greater(a, b)) => Less(r, b)
        /\ (Less(t, Zero) /\ Less(a, b)) => Less(r, a)
        /\ (Less(t, Zero) /\ Greater(a, b)) => Greater(r, a)

\* C6, amended: lerp(a, b, t) is a + (b - a) * t in double arithmetic with
\* no clamping of t: lerp(a, b, 0) is a when b - a is finite and NaN when
\* b - a overflows; lerp(a, b, 1) is b when a and b are bounded integers
\* (otherwise b - a may be rounded and the result miss b); on bounded
\* integers a, b and halves t the result is exact; for t outside [0, 1] the
\* result is never strictly between a and b, and it lies strictly outside
\* the interval unless (b - a) * t underflows.
C6_LerpUnclamped ==
  LET a == lerpA  b == lerpB  t == lerpT  r == lerpResult
      d == Minus(b, a)
      kept == ~IsZero(Times(d, t))
  IN  Returned =>
        /\ (IsZero(t) /\ d.k = "num") => r = a
        /\ (IsZero(t) /\ d.k = "inf") => r.k = "nan"
        /\ (t = One /\ BoundedInteger(a) /\ BoundedInteger(b)) => r = b
        /\ (BoundedInteger(a) /\ BoundedInteger(b)) =>
             r = ExactPlus(a, ExactTimes(ExactMinus(b, a), t))
        /\ (Greater(t, One) /\ Less(a, b)) => Greater(r, b)
        /\ (Greater(t, One) /\ Greater(a, b)) => Less(r, b)
        /\ (Less(t, Zero) /\ Less(a, b)) => Geq(a, r)
        /\ (Less(t, Zero) /\ Greater(a, b)) => Leq(a, r)
        /\ (Less(t, Zero) /\ Less(a, b) /\ kept) => Less(r, a)
        /\ (Less(t, Zero) /\ Greater(a, b) /\ kept) => Greater(r, a)

C6_Witness ==
  /\ Returned
  /\ lerpA = Zero
  /\ lerpB = FromInt(10)
  /\ lerpT = FromInt(2)
  /\ lerpResult = FromInt(20)

(***************************************************************************)
(* Properties of App (SpecApp)                                             *)
(***************************************************************************)
\* C8: in every frame, once the mouse segment is updated, pairs of segments
\* of App.segments are passed to Mathy.calculateIntersection and the result
\* is obtained before the frame is drawn and the next frame is scheduled.
C8_FrameIntersects ==
  (pending /\ Len(segments) >= 2) => intersectionCalls # <<>>

====
